---- MODULE Spec2Model ----
(***************************************************************************)
(* A model of hazel's .bib reader (src/initial.py): the line-oriented      *)
(* field extractors, extract_data, and create_markdown.                    *)
(*                                                                         *)
(* Text is modelled by TLA+ strings, a file by the sequence of its lines   *)
(* (each line keeps its terminating "\n", as Python's file iteration       *)
(* yields it), and the file cursor by the number of lines already read.    *)
(* Python's None is the empty tuple and a str value s is <<s>>.            *)
(***************************************************************************)
EXTENDS Integers, Sequences, FiniteSets, TLC

---------------------------------------------------------------------------
(* Bounds of the model *)

\* lines of an entry
MaxLines == 3
\* author names of an entry, over all of its author lines
MaxNames == 3
\* tags of an entry, over all of its keywords lines
MaxTags == 2

---------------------------------------------------------------------------
(* Python values *)

None == <<>>

Some(s) == <<s>>

\* str(v) as an f-string renders it
Fmt(v) == IF v = None THEN "None" ELSE v[1]

NoExc == [type |-> "none", in |-> "none"]

Exc(t, f) == [type |-> t, in |-> f]

---------------------------------------------------------------------------
(* Python str operations used by the extractors *)

Min(S) == CHOOSE i \in S : \A j \in S : i <= j

Max(S) == CHOOSE i \in S : \A j \in S : i >= j

Char(s, i) == SubSeq(s, i, i)

\* str.find, 1-based, 0 when absent
Find(s, sub) ==
    LET hits == {i \in 1..(Len(s) - Len(sub) + 1) :
                    SubSeq(s, i, i + Len(sub) - 1) = sub}
    IN IF hits = {} THEN 0 ELSE Min(hits)

\* sub in s
Contains(s, sub) == Find(s, sub) # 0

\* s.split(sep)
RECURSIVE Split(_, _)
Split(s, sep) ==
    LET i == Find(s, sep)
    IN IF i = 0 THEN <<s>>
       ELSE <<SubSeq(s, 1, i - 1)>> \o Split(SubSeq(s, i + Len(sep), Len(s)), sep)

\* sep.join(parts)
RECURSIVE Join(_, _)
Join(parts, sep) ==
    IF parts = <<>> THEN ""
    ELSE IF Len(parts) = 1 THEN parts[1]
    ELSE parts[1] \o sep \o Join(Tail(parts), sep)

\* s.replace(c, '') for a single character c
RECURSIVE Remove(_, _)
Remove(s, c) ==
    IF Len(s) = 0 THEN ""
    ELSE (IF Char(s, 1) = c THEN "" ELSE Char(s, 1)) \o Remove(SubSeq(s, 2, Len(s)), c)

UpperAlpha == "ABCDEFGHIJKLMNOPQRSTUVWXYZ"

LowerAlpha == "abcdefghijklmnopqrstuvwxyz"

DigitChars == "0123456789"

CharsOf(s) == {Char(s, i) : i \in 1..Len(s)}

\* str.isalnum on one character
IsAlnum(c) == c \in CharsOf(UpperAlpha) \cup CharsOf(LowerAlpha) \cup CharsOf(DigitChars)

\* what \s matches, and what str.strip() removes
Whitespace == {" ", "\t", "\n", "\r", "\f"}

\* what \w matches
IsWord(c) == IsAlnum(c) \/ c = "_"

LowerChar(c) ==
    IF c \in CharsOf(UpperAlpha) THEN Char(LowerAlpha, Find(UpperAlpha, c)) ELSE c

\* s.lower()
RECURSIVE Lower(_)
Lower(s) ==
    IF Len(s) = 0 THEN "" ELSE LowerChar(Char(s, 1)) \o Lower(SubSeq(s, 2, Len(s)))

\* s.strip()
Strip(s) ==
    LET keep == {i \in 1..Len(s) : Char(s, i) \notin Whitespace}
    IN IF keep = {} THEN "" ELSE SubSeq(s, Min(keep), Max(keep))


---------------------------------------------------------------------------
(* The extractors.  Each takes the file and its cursor and yields the      *)
(* value returned, the cursor it leaves behind and the exception raised.   *)

Ret(v, p) == [val |-> v, pos |-> p, exc |-> NoExc]

Raise(t, f, p) == [val |-> None, pos |-> p, exc |-> Exc(t, f)]

\* the lines a `for line in file` loop still has to read
Unread(file, pos) == (pos + 1)..Len(file)

\* line.split('{')[1].split('}')[0]; <<>> when there is no '{' (IndexError)
BraceArg(line) ==
    LET parts == Split(line, "{")
    IN IF Len(parts) < 2 THEN None ELSE Some(Split(parts[2], "}")[1])

\* re.sub(r'[^\w\s ,]', '', name)
RECURSIVE clean_name(_)
clean_name(name) ==
    IF Len(name) = 0 THEN ""
    ELSE LET c == Char(name, 1)
         IN (IF IsWord(c) \/ c \in Whitespace \/ c = "," THEN c ELSE "")
                \o clean_name(SubSeq(name, 2, Len(name)))

\* last, first = clean_name.split(', ') unpacks exactly two parts
Unpacks(name) == Len(Split(clean_name(name), ", ")) = 2

\* FormatAuthor with the two parts in source order: f'{last} {first}'
FormatAuthor_last_first(name) ==
    LET parts == Split(clean_name(name), ", ")
    IN parts[1] \o " " \o parts[2]

\* f'{first} {last}'
FormatAuthor(name) ==
    LET parts == Split(clean_name(name), ", ")
    IN parts[2] \o " " \o parts[1]

\* AuthorLine that skips a name it cannot unpack instead of raising
AuthorLine_skip(line) ==
    LET arg == BraceArg(line)
    IN IF arg = None THEN <<"IndexError">>
       ELSE <<"ok", [i \in 1..Len(SelectSeq(Split(arg[1], " and "), Unpacks)) |->
                        FormatAuthor(SelectSeq(Split(arg[1], " and "), Unpacks)[i])]>>

\* the body of `if 'author = ' in line:`; <<"ok", authors>> or <<exception>>
AuthorLine(line) ==
    LET arg == BraceArg(line)
    IN IF arg = None THEN <<"IndexError">>
       ELSE LET split_names == Split(arg[1], " and ")
            IN IF \E i \in 1..Len(split_names) : ~Unpacks(split_names[i])
               THEN <<"ValueError">>
               ELSE <<"ok", [i \in 1..Len(split_names) |-> FormatAuthor(split_names[i])]>>

\* authors_loop without the `authors = []` of each author line
RECURSIVE authors_loop_accumulate(_, _, _)
authors_loop_accumulate(file, i, authors) ==
    IF i > Len(file) THEN Ret(authors, 0)
    ELSE IF Contains(file[i], "author = ")
         THEN LET r == AuthorLine(file[i])
              IN IF r[1] = "ok" THEN authors_loop_accumulate(file, i + 1, authors \o r[2])
                 ELSE Raise(r[1], "get_authors", i)
         ELSE authors_loop_accumulate(file, i + 1, authors)

RECURSIVE authors_loop(_, _, _)
authors_loop(file, i, authors) ==
    IF i > Len(file) THEN Ret(authors, 0)
    ELSE IF Contains(file[i], "author = ")
         THEN LET r == AuthorLine(file[i])
              IN IF r[1] = "ok" THEN authors_loop(file, i + 1, r[2])
                 ELSE Raise(r[1], "get_authors", i)
         ELSE authors_loop(file, i + 1, authors)

get_authors(file, pos) == authors_loop(file, pos + 1, <<>>)

\* line.split('= ')[1].split(',\n')[0] with the braces replaced by ''
TitleOfLine(line) ==
    LET title_arg == Split(Split(line, "= ")[2], ",\n")[1]
    IN Remove(Remove(title_arg, "{"), "}")

get_title(file, pos) ==
    LET hits == {i \in Unread(file, pos) : Contains(file[i], "title = ")}
    IN IF hits = {} THEN Ret(None, Len(file))
       ELSE Ret(Some(TitleOfLine(file[Min(hits)])), 0)

\* get_year and get_url: the first line with the key, its brace argument
ScalarField(file, pos, key, f) ==
    LET hits == {i \in Unread(file, pos) : Contains(file[i], key)}
    IN IF hits = {} THEN Ret(None, Len(file))
       ELSE LET arg == BraceArg(file[Min(hits)])
            IN IF arg = None THEN Raise("IndexError", f, Min(hits))
               ELSE Ret(arg, 0)

get_year(file, pos) == ScalarField(file, pos, "year = ", "get_year")

get_url(file, pos) == ScalarField(file, pos, "url = ", "get_url")

\* ''.join(char for char in title if char.isalnum())
RECURSIVE savename(_)
savename(title) ==
    IF Len(title) = 0 THEN ""
    ELSE (IF IsAlnum(Char(title, 1)) THEN Char(title, 1) ELSE "")
            \o savename(SubSeq(title, 2, Len(title)))

\* iterating None raises TypeError
get_filename(title) ==
    IF title = None THEN Raise("TypeError", "get_filename", 0)
    ELSE Ret(Some(savename(title[1]) \o ".md"), 0)

---------------------------------------------------------------------------
(* get_tags *)

\* ClassifyTag without the `elif tag == 'Archived': pass` branch
ClassifyTag_no_archived(tag) ==
    IF tag = "To Read - Low Priority" THEN <<<<"low-priority">>, <<>>>>
    ELSE IF tag = "To Read - Mid Priority" THEN <<<<"mid-priority">>, <<>>>>
    ELSE IF tag = "To Read - High Priority" THEN <<<<"high-priority">>, <<>>>>
    ELSE IF tag = "1st Pass" THEN <<<<"first-pass">>, <<>>>>
    ELSE IF tag = "2nd Pass" THEN <<<<"second-pass">>, <<>>>>
    ELSE IF tag = "3rd Pass" THEN <<<<"third-pass">>, <<>>>>
    ELSE IF tag = "Important" THEN <<<<"important">>, <<>>>>
    ELSE <<<<>>, <<Join(Split(Lower(tag), " "), "-")>>>>

\* the if/elif chain over one tag: <<status tags>>, <<topic tags>> it appends
ClassifyTag(tag) ==
    IF tag = "To Read - Low Priority" THEN <<<<"low-priority">>, <<>>>>
    ELSE IF tag = "To Read - Mid Priority" THEN <<<<"mid-priority">>, <<>>>>
    ELSE IF tag = "To Read - High Priority" THEN <<<<"high-priority">>, <<>>>>
    ELSE IF tag = "1st Pass" THEN <<<<"first-pass">>, <<>>>>
    ELSE IF tag = "2nd Pass" THEN <<<<"second-pass">>, <<>>>>
    ELSE IF tag = "3rd Pass" THEN <<<<"third-pass">>, <<>>>>
    ELSE IF tag = "Important" THEN <<<<"important">>, <<>>>>
    ELSE IF tag = "Archived" THEN <<<<>>, <<>>>>
    ELSE <<<<>>, <<Join(Split(Lower(tag), " "), "-")>>>>

\* for tag in split_tags
RECURSIVE tags_of_line(_, _, _)
tags_of_line(split_tags, status_tags, topic_tags) ==
    IF split_tags = <<>> THEN <<status_tags, topic_tags>>
    ELSE LET c == ClassifyTag(Head(split_tags))
         IN tags_of_line(Tail(split_tags), status_tags \o c[1], topic_tags \o c[2])

\* DefaultStatus that appends 'not-read' whatever was found
DefaultStatus_always(status_tags) == Append(status_tags, "not-read")

\* if len(status_tags) == 0: status_tags.append('not-read')
DefaultStatus(status_tags) ==
    IF Len(status_tags) = 0 THEN <<"not-read">> ELSE status_tags

RECURSIVE tags_loop(_, _, _, _)
tags_loop(file, i, status_tags, topic_tags) ==
    IF i > Len(file) THEN Ret(<<DefaultStatus(status_tags), topic_tags>>, 0)
    ELSE IF Contains(file[i], "keywords = ")
         THEN LET arg == BraceArg(file[i])
              IN IF arg = None THEN Raise("IndexError", "get_tags", i)
                 ELSE LET t == tags_of_line(Split(arg[1], ", "), status_tags, topic_tags)
                      IN tags_loop(file, i + 1, t[1], t[2])
         ELSE tags_loop(file, i + 1, status_tags, topic_tags)

get_tags(file, pos) == tags_loop(file, pos + 1, <<>>, <<>>)

---------------------------------------------------------------------------
(* get_notes *)

RECURSIVE notes_loop(_, _, _, _)
notes_loop(file, i, flag, notes) ==
    IF i > Len(file) THEN Ret(notes, 0)
    ELSE IF Contains(file[i], "annote = ") THEN notes_loop(file, i + 1, TRUE, notes)
    ELSE IF flag
         THEN IF Contains(file[i], "},") THEN Ret(notes, 0)
              ELSE notes_loop(file, i + 1, flag, Append(notes, Strip(file[i])))
         ELSE notes_loop(file, i + 1, flag, notes)

get_notes(file, pos) == notes_loop(file, pos + 1, FALSE, <<>>)

---------------------------------------------------------------------------
(* create_markdown: everything it writes to the file, in order *)

\* for x in xs: f.write(pre + x + post)
RECURSIVE WriteEach(_, _, _)
WriteEach(xs, pre, post) ==
    IF xs = <<>> THEN "" ELSE pre \o Head(xs) \o post \o WriteEach(Tail(xs), pre, post)

\* '- [[PPL_' + '_'.join(author.split(' ')) + '|' + author + ']]\n' per author
RECURSIVE WriteAuthors(_)
WriteAuthors(authors) ==
    IF authors = <<>> THEN ""
    ELSE "- [[PPL_" \o Join(Split(Head(authors), " "), "_") \o "|" \o Head(authors) \o "]]\n"
            \o WriteAuthors(Tail(authors))

WriteLink(url) ==
    IF url # None THEN "[Link to Online Version](" \o Fmt(url) \o ")\n\n"
    ELSE "(Link not found)\n\n"

\* WriteTags with the two loops in the other order
WriteTags_topics_first(status_tags, topic_tags) ==
    "## Tags\n\n"
        \o WriteEach(topic_tags, "#", "\n")
        \o (IF Len(topic_tags) > 0 THEN "\n" ELSE "")
        \o WriteEach(status_tags, "#", "\n")
        \o (IF Len(status_tags) > 0 THEN "\n" ELSE "")

WriteTags(status_tags, topic_tags) ==
    "## Tags\n\n"
        \o WriteEach(status_tags, "#", "\n")
        \o (IF Len(status_tags) > 0 THEN "\n" ELSE "")
        \o WriteEach(topic_tags, "#", "\n")
        \o (IF Len(topic_tags) > 0 THEN "\n" ELSE "")

WriteNotes(imported_notes) ==
    IF Len(imported_notes) > 0
    THEN "## Imported Notes\n\n" \o WriteEach(imported_notes, "- ", "\n") \o "\n"
    ELSE ""

create_markdown(d) ==
    "# " \o Fmt(d.title) \o " (" \o Fmt(d.year) \o ")\n\n"
        \o WriteLink(d.url)
        \o WriteTags(d.status_tags, d.topic_tags)
        \o "## Authors\n\n" \o WriteAuthors(d.authors) \o "\n"
        \o "## Summary\n\n" \o "(Summary here)\n\n"
        \o "## Key Takeaways\n\n" \o "- Key takeaways here\n\n"
        \o "## Relevance (or lack thereof)\n\n" \o "(Relevance here)\n\n"
        \o WriteNotes(d.imported_notes)
        \o "---------------\n" \o "*Made with Hazel*\n"

---------------------------------------------------------------------------
(* State *)

VARIABLES
    file,   \* the lines of the .bib file that is open
    pos,    \* the file cursor: how many lines have been read
    pc,     \* the statement about to run
    call,   \* the function the caller invoked
    data,   \* the values extracted so far (extract_data's locals and dict)
    exc,    \* the exception that reached the caller
    disk    \* the markdown file written: None, or <<[name, content]>>

vars == <<file, pos, pc, call, data, exc, disk>>

NoData ==
    [title |-> None, authors |-> <<>>, filename |-> None, status_tags |-> <<>>,
     topic_tags |-> <<>>, imported_notes |-> <<>>, url |-> None, year |-> None]

---------------------------------------------------------------------------
(* Inputs *)

SeqsUpTo(S, n) == UNION {[1..k -> S] : k \in 0..n}

\* a tuple of items cut into consecutive non-empty groups after the positions in cuts
RECURSIVE Groups(_, _, _)
Groups(t, cuts, start) ==
    IF start > Len(t) THEN <<>>
    ELSE LET later == {c \in cuts : c >= start}
             end == IF later = {} THEN Len(t) ELSE Min(later)
         IN <<SubSeq(t, start, end)>> \o Groups(t, cuts, end + 1)

\* entries whose items (names, tags) are spread over one field line per group
FieldFiles(items, sep, key) ==
    {[i \in 1..Len(g) |-> key \o "{" \o Join(g[i], sep) \o "},\n"] :
        g \in UNION {{Groups(t, cuts, 1) : cuts \in SUBSET (1..(Len(t) - 1))} : t \in items}}

\* the entries extract_data is run on
EntryLines ==
    {"title = {A Study: Part 2},\n", "author = {Doe, Jane and Smith, John},\n",
     "author = {JohnDoe},\n", "keywords = {Important, Deep Nets},\n", "annote = {\n",
     "  line one\n", "url = {http://x.org/a},\n", "year = {2020},\n"}

Entries == SeqsUpTo(EntryLines, MaxLines) \ {<<>>}

\* title lines; one without its ",\n" can only be the last line of a file
TitleLines ==
    {"title = {Ab c},\n", "title = {a = b},\n", "title = {x, y}\n",
     "title = {{A}b},\n", "booktitle = {Z},\n", "year = {2020},\n"}

TitleLastLines == {"title = {Ab},", "title = {Ab}"}

TitleFiles ==
    {f \in SeqsUpTo(TitleLines \cup TitleLastLines, MaxLines) :
        \A i \in 1..(Len(f) - 1) : f[i] \in TitleLines}

NamePool == {"Doe, Jane", "O'Neil, J. R.", "Lee_Wu, Al", "JohnDoe"}

AuthorFiles == FieldFiles(SeqsUpTo(NamePool, MaxNames), " and ", "author = ")

TagPool ==
    {"To Read - Low Priority", "To Read - Mid Priority", "To Read - High Priority",
     "1st Pass", "2nd Pass", "3rd Pass", "Important", "Archived",
     "Machine Learning", "important", ""}

TagFiles == FieldFiles(SeqsUpTo(TagPool, MaxTags), ", ", "keywords = ")

NoteLines ==
    {"annote = {\n", "  line one \n", "\tline two\n", "},\n", "year = {2020},\n",
     "see annote = x\n", "\n"}

NoteFiles == SeqsUpTo(NoteLines, MaxLines)

---------------------------------------------------------------------------
(* __main__: extract_data(bib), then create_markdown(savedir, data) *)

Init ==
    /\ file \in Entries
    /\ pos = 0
    /\ pc = "get_title"
    /\ call = "main"
    /\ data = NoData
    /\ exc = NoExc
    /\ disk = None

\* one statement of extract_data: r is what the extractor yields
Step(r, field, next) ==
    /\ pos' = r.pos
    /\ IF r.exc = NoExc
       THEN /\ data' = [data EXCEPT ![field] = r.val]
            /\ pc' = next
            /\ exc' = exc
       ELSE /\ data' = data
            /\ pc' = "raised"
            /\ exc' = r.exc
    /\ UNCHANGED <<file, call, disk>>

MainGetTitle ==
    /\ call = "main" /\ pc = "get_title"
    /\ Step(get_title(file, pos), "title", "get_authors")

MainGetAuthors ==
    /\ call = "main" /\ pc = "get_authors"
    /\ Step(get_authors(file, pos), "authors", "get_filename")

MainGetFilename ==
    /\ call = "main" /\ pc = "get_filename"
    /\ Step([get_filename(data.title) EXCEPT !.pos = pos], "filename", "get_tags")

MainGetTags ==
    /\ call = "main" /\ pc = "get_tags"
    /\ LET r == get_tags(file, pos)
       IN /\ pos' = r.pos
          /\ IF r.exc = NoExc
             THEN /\ data' = [data EXCEPT !.status_tags = r.val[1], !.topic_tags = r.val[2]]
                  /\ pc' = "get_notes"
                  /\ exc' = exc
             ELSE /\ data' = data
                  /\ pc' = "raised"
                  /\ exc' = r.exc
    /\ UNCHANGED <<file, call, disk>>

MainGetNotes ==
    /\ call = "main" /\ pc = "get_notes"
    /\ Step(get_notes(file, pos), "imported_notes", "get_url")

MainGetUrl ==
    /\ call = "main" /\ pc = "get_url"
    /\ Step(get_url(file, pos), "url", "get_year")

MainGetYear ==
    /\ call = "main" /\ pc = "get_year"
    /\ Step(get_year(file, pos), "year", "create_markdown")

MainCreateMarkdown ==
    /\ call = "main" /\ pc = "create_markdown"
    /\ disk' = Some([name |-> data.filename[1], content |-> create_markdown(data)])
    /\ pc' = "done"
    /\ UNCHANGED <<file, pos, call, data, exc>>

Next ==
    \/ MainGetTitle
    \/ MainGetAuthors
    \/ MainGetFilename
    \/ MainGetTags
    \/ MainGetNotes
    \/ MainGetUrl
    \/ MainGetYear
    \/ MainCreateMarkdown

Spec == Init /\ [][Next]_vars

---------------------------------------------------------------------------
(* One extractor called on a freshly opened file *)

InitFn ==
    /\ file = <<>>
    /\ pos = 0
    /\ pc = "idle"
    /\ call = "none"
    /\ data = NoData
    /\ exc = NoExc
    /\ disk = None

Called(f, fn, r, d) ==
    /\ pc = "idle"
    /\ file' = f
    /\ call' = fn
    /\ pos' = r.pos
    /\ exc' = r.exc
    /\ pc' = IF r.exc = NoExc THEN "returned" ELSE "raised"
    /\ data' = IF r.exc = NoExc THEN d ELSE data
    /\ UNCHANGED disk

FnGetTitle ==
    \E f \in TitleFiles :
        LET r == get_title(f, 0)
        IN Called(f, "get_title", r, [data EXCEPT !.title = r.val])

FnGetAuthors ==
    \E f \in AuthorFiles :
        LET r == get_authors(f, 0)
        IN Called(f, "get_authors", r, [data EXCEPT !.authors = r.val])

FnGetTags ==
    \E f \in TagFiles :
        LET r == get_tags(f, 0)
        IN Called(f, "get_tags", r,
                  [data EXCEPT !.status_tags = r.val[1], !.topic_tags = r.val[2]])

FnGetNotes ==
    \E f \in NoteFiles :
        LET r == get_notes(f, 0)
        IN Called(f, "get_notes", r, [data EXCEPT !.imported_notes = r.val])

NextFn ==
    \/ FnGetTitle
    \/ FnGetAuthors
    \/ FnGetTags
    \/ FnGetNotes

SpecFn == InitFn /\ [][NextFn]_vars

---------------------------------------------------------------------------
(* Properties of a run of __main__ *)

Rank ==
    [get_title |-> 1, get_authors |-> 2, get_filename |-> 3, get_tags |-> 4,
     get_notes |-> 5, get_url |-> 6, get_year |-> 7, create_markdown |-> 8, done |-> 9]

\* the statement `step` of extract_data has returned
Past(step) == call = "main" /\ pc # "raised" /\ Rank[pc] > Rank[step]

\* v is what the extractor returns on a fresh cursor at the start of the same
\* text (r), when it returns there
Fresh(r, v) == r.exc = NoExc => r.val = v

\* C1: every extractor that extract_data runs after another one returns what
\* it returns on a fresh cursor positioned at the start of the same entry.
C1_NoCrossContamination ==
    /\ Past("get_authors") => Fresh(get_authors(file, 0), data.authors)
    /\ Past("get_tags") => Fresh(get_tags(file, 0), <<data.status_tags, data.topic_tags>>)
    /\ Past("get_notes") => Fresh(get_notes(file, 0), data.imported_notes)
    /\ Past("get_url") => Fresh(get_url(file, 0), data.url)
    /\ Past("get_year") => Fresh(get_year(file, 0), data.year)

NoTitleLine(f) == \A i \in 1..Len(f) : ~Contains(f[i], "title = ")

\* no other field of the entry makes its extractor raise
OtherFieldsParse(f) ==
    /\ get_authors(f, 0).exc = NoExc
    /\ get_tags(f, 0).exc = NoExc
    /\ get_url(f, 0).exc = NoExc
    /\ get_year(f, 0).exc = NoExc

\* C2: on an entry without a title line extract_data raises nothing and
\* returns a record with no title and with the authors, tags, notes, url and
\* year of the entry.
C2_MissingTitleDoesNotFail ==
    (call = "main" /\ NoTitleLine(file) /\ OtherFieldsParse(file)) =>
        /\ exc = NoExc
        /\ Past("get_year") =>
            /\ data.title = None
            /\ data.authors = get_authors(file, 0).val
            /\ <<data.status_tags, data.topic_tags>> = get_tags(file, 0).val
            /\ data.imported_notes = get_notes(file, 0).val
            /\ data.url = get_url(file, 0).val
            /\ data.year = get_year(file, 0).val

\* the line is an author line one of whose ' and '-separated tokens does not
\* split on ', ' into exactly two parts
MalformedAuthorLine(line) ==
    /\ Contains(line, "author = ")
    /\ Contains(line, "{")
    /\ LET tokens == Split(Split(Split(line, "{")[2], "}")[1], " and ")
       IN \E i \in 1..Len(tokens) : ~Unpacks(tokens[i])

HasMalformedAuthor(f) == \E i \in 1..Len(f) : MalformedAuthorLine(f[i])

---------------------------------------------------------------------------
(* The rendered note *)

StartsWith(s, pre) == Len(s) >= Len(pre) /\ SubSeq(s, 1, Len(pre)) = pre

IndexOf(L, x) == Min({i \in 1..Len(L) : L[i] = x})

Prefixed(xs, pre) == [i \in 1..Len(xs) |-> pre \o xs[i]]

NonBlank(L, from, to) == SelectSeq(SubSeq(L, from, to), LAMBDA l : l # "")

NoteLinesOK(L) ==
    /\ L[1] = "# " \o data.title[1] \o " (" \o Fmt(data.year) \o ")"
    /\ (data.year # None => L[1] = "# " \o data.title[1] \o " (" \o data.year[1] \o ")")
    /\ L[2] = ""
    /\ (data.url # None => L[3] = "[Link to Online Version](" \o data.url[1] \o ")")
    /\ (data.url = None <=> L[3] = "(Link not found)")
    /\ SelectSeq(L, LAMBDA l : StartsWith(l, "## ")) =
          <<"## Tags", "## Authors", "## Summary", "## Key Takeaways",
            "## Relevance (or lack thereof)">>
          \o (IF data.imported_notes # <<>> THEN <<"## Imported Notes">> ELSE <<>>)
    /\ L[5] = "## Tags"
    /\ NonBlank(L, 6, IndexOf(L, "## Authors") - 1) =
          Prefixed(data.status_tags, "#") \o Prefixed(data.topic_tags, "#")
    /\ (data.imported_notes # <<>> =>
          NonBlank(L, IndexOf(L, "## Imported Notes") + 1, Len(L) - 3) =
              Prefixed(data.imported_notes, "- "))
    /\ L[Len(L) - 2] = "---------------"
    /\ L[Len(L) - 1] = "*Made with Hazel*"
    /\ L[Len(L)] = ""

\* C8: the note written has the H1, the link line (the placeholder exactly
\* when the url is absent), the headings in the fixed order with the status
\* tags before the topic tags, Imported Notes with one bullet per note exactly
\* when there are notes, and the rule and signature as its last lines.
C8_SectionOrder ==
    (call = "main" /\ pc = "done") =>
        /\ disk # None
        /\ disk[1].name = data.filename[1]
        /\ NoteLinesOK(Split(disk[1].content, "\n"))

\* a note written with imported notes and the link placeholder
C8_Witness ==
    /\ call = "main" /\ pc = "done" /\ disk # None
    /\ data.imported_notes # <<>> /\ data.url = None

---------------------------------------------------------------------------
(* Properties of one extractor called on a freshly opened file *)

Returned(fn) == call = fn /\ pc = "returned"

Range(q) == {q[i] : i \in 1..Len(q)}

\* the lines strictly after the first line containing 'annote = ' and strictly
\* before the first later line containing '},' (or the end of input), trimmed
NotesBetweenMarkers(f) ==
    LET opens == {i \in 1..Len(f) : Contains(f[i], "annote = ")}
    IN IF opens = {} THEN <<>>
       ELSE LET a == Min(opens)
                closes == {j \in (a + 1)..Len(f) : Contains(f[j], "},")}
                e == IF closes = {} THEN Len(f) + 1 ELSE Min(closes)
            IN [k \in 1..(e - a - 1) |-> Strip(f[a + k])]

\* C3: get_notes never raises and returns exactly the trimmed lines between
\* the first 'annote = ' line and the first later line containing '},' (the end
\* of input if there is none); nothing when no line contains 'annote = '.
C3_NotesBetweenMarkers ==
    call = "get_notes" =>
        /\ pc = "returned"
        /\ data.imported_notes = NotesBetweenMarkers(file)

\* the arguments of the lines that contain key, in file order
FieldArgs(f, key) ==
    LET ls == SelectSeq(f, LAMBDA l : Contains(l, key))
    IN [i \in 1..Len(ls) |-> Split(Split(ls[i], "{")[2], "}")[1]]

RECURSIVE Flatten(_)
Flatten(qs) == IF qs = <<>> THEN <<>> ELSE Head(qs) \o Flatten(Tail(qs))

\* every tag of the entry, in input order
InputTags(f) ==
    LET args == FieldArgs(f, "keywords = ")
    IN Flatten([i \in 1..Len(args) |-> Split(args[i], ", ")])

StatusKeywords ==
    <<"To Read - Low Priority", "To Read - Mid Priority", "To Read - High Priority",
      "1st Pass", "2nd Pass", "3rd Pass", "Important">>

StatusNormalized ==
    <<"low-priority", "mid-priority", "high-priority",
      "first-pass", "second-pass", "third-pass", "important">>

IsStatus(tag) == tag \in Range(StatusKeywords)

IsTopic(tag) == ~IsStatus(tag) /\ tag # "Archived"

NormalizedStatus(tag) ==
    StatusNormalized[CHOOSE i \in 1..Len(StatusKeywords) : StatusKeywords[i] = tag]

\* lower-cased, every space replaced by a hyphen
RECURSIVE Kebab(_)
Kebab(tag) ==
    IF Len(tag) = 0 THEN ""
    ELSE (IF Char(tag, 1) = " " THEN "-" ELSE LowerChar(Char(tag, 1)))
            \o Kebab(SubSeq(tag, 2, Len(tag)))

ExpectedStatus(f) ==
    LET q == SelectSeq(InputTags(f), IsStatus)
    IN [i \in 1..Len(q) |-> NormalizedStatus(q[i])]

ExpectedTopics(f) ==
    LET q == SelectSeq(InputTags(f), IsTopic)
    IN [i \in 1..Len(q) |-> Kebab(q[i])]

\* C5: the status keywords of the entry give statusTags by the table, in input
\* order; 'Archived' gives nothing; every other tag gives its lower-cased,
\* hyphenated form in topicTags, in input order; no tag is lost or duplicated.
C5_TagClassification ==
    Returned("get_tags") =>
        /\ data.topic_tags = ExpectedTopics(file)
        /\ (ExpectedStatus(file) # <<>> => data.status_tags = ExpectedStatus(file))
        /\ (ExpectedStatus(file) = <<>> => Len(data.status_tags) = 1)
        /\ Len(ExpectedStatus(file)) + Len(data.topic_tags)
              + Len(SelectSeq(InputTags(file), LAMBDA t : t = "Archived"))
              = Len(InputTags(file))

\* a status keyword, then a topic tag with a space in it
C5_Witness ==
    /\ Returned("get_tags")
    /\ InputTags(file) = <<"To Read - High Priority", "Machine Learning">>
    /\ data.status_tags = <<"high-priority">>
    /\ data.topic_tags = <<"machine-learning">>

\* C6: statusTags is never empty; it is <<"not-read">> exactly when no tag of
\* the entry is a status keyword, and otherwise does not contain "not-read".
C6_DefaultStatus ==
    Returned("get_tags") =>
        /\ data.status_tags # <<>>
        /\ (~\E t \in Range(InputTags(file)) : IsStatus(t))
              <=> data.status_tags = <<"not-read">>
        /\ (\E t \in Range(InputTags(file)) : IsStatus(t))
              => "not-read" \notin Range(data.status_tags)

\* two keywords lines, none with a status keyword
C6_Witness ==
    /\ Returned("get_tags")
    /\ Len(file) = 2
    /\ InputTags(file) = <<"Archived", "">>
    /\ data.status_tags = <<"not-read">>

---------------------------------------------------------------------------
(* get_authors *)

\* name without the characters outside keep
RECURSIVE Cleaned(_, _)
Cleaned(name, keep) ==
    IF Len(name) = 0 THEN ""
    ELSE (IF Char(name, 1) \in keep THEN Char(name, 1) ELSE "")
            \o Cleaned(SubSeq(name, 2, Len(name)), keep)

AlnumSpaceComma ==
    CharsOf(UpperAlpha) \cup CharsOf(LowerAlpha) \cup CharsOf(DigitChars)
        \cup Whitespace \cup {","}

\* 'First Last' of a 'Last, First' name
FirstLast(name) ==
    LET k == Find(name, ", ")
    IN SubSeq(name, k + 2, Len(name)) \o " " \o SubSeq(name, 1, k - 1)

\* 'Last, First': exactly one ', ' in the name once cleaned
WellFormed(name, keep) ==
    LET c == Cleaned(name, keep)
        k == Find(c, ", ")
    IN k # 0 /\ Find(SubSeq(c, k + 2, Len(c)), ", ") = 0

\* the names of an author field value
NamesOf(arg) == Split(arg, " and ")

AuthorsAre(arg, keep) ==
    /\ pc = "returned"
    /\ Len(data.authors) = Len(NamesOf(arg))
    /\ \A i \in 1..Len(NamesOf(arg)) :
          data.authors[i] = FirstLast(Cleaned(NamesOf(arg)[i], keep))

OneAuthorField(keep) ==
    /\ call = "get_authors"
    /\ Len(FieldArgs(file, "author = ")) = 1
    /\ \A n \in Range(NamesOf(FieldArgs(file, "author = ")[1])) : WellFormed(n, keep)

\* C7 as claimed: the n well-formed names of the author field give n entries
\* in input order, each 'First Last' of the name with every character that is
\* not alphanumeric, whitespace or comma removed.
C7_AuthorsInOrder_AlnumOnly ==
    OneAuthorField(AlnumSpaceComma) =>
        AuthorsAre(FieldArgs(file, "author = ")[1], AlnumSpaceComma)

\* C7: the n well-formed names of the author field give n entries in input
\* order, each 'First Last' of the name with every character that is not
\* alphanumeric, underscore, whitespace or comma removed.
C7_AuthorsInOrder ==
    OneAuthorField(AlnumSpaceComma \cup {"_"}) =>
        AuthorsAre(FieldArgs(file, "author = ")[1], AlnumSpaceComma \cup {"_"})

\* three different names on one author line, returned in input order
C7_Witness ==
    /\ Returned("get_authors")
    /\ Len(file) = 1
    /\ data.authors = <<"Jane Doe", "J R ONeil", "Al Lee_Wu">>

\* C10: with several author lines get_authors returns the names of the last
\* one only, and leaves the cursor rewound.
C10_LastAuthorLineWins ==
    (Returned("get_authors") /\ Len(FieldArgs(file, "author = ")) >= 2) =>
        /\ AuthorsAre(FieldArgs(file, "author = ")[Len(FieldArgs(file, "author = "))],
                      AlnumSpaceComma \cup {"_"})
        /\ pos = 0

\* two author lines with different names: only the second one's is returned
C10_Witness ==
    /\ Returned("get_authors")
    /\ FieldArgs(file, "author = ") = <<"Doe, Jane and Lee_Wu, Al", "O'Neil, J. R.">>
    /\ data.authors = <<"J R ONeil">>

---------------------------------------------------------------------------
(* get_title *)

\* of the first line containing 'title = ': the text between the first '{'
\* after the key and the closing '}' of the line, without braces
BracedTitle(f) ==
    LET line == f[Min({i \in 1..Len(f) : Contains(f[i], "title = ")})]
        rest == SubSeq(line, Find(line, "title = ") + Len("title = "), Len(line))
        open == Find(rest, "{")
        close == Max({j \in 1..Len(rest) : Char(rest, j) = "}"})
    IN Remove(Remove(SubSeq(rest, open + 1, close - 1), "{"), "}")

\* C9: get_title returns the braced value of the first title line with the
\* braces stripped, whatever the value contains and whether or not the line
\* ends in a comma or is the last line.
C9_TitleBetweenBraces ==
    (call = "get_title" /\ ~NoTitleLine(file)) =>
        /\ pc = "returned"
        /\ data.title = Some(BracedTitle(file))

=============================================================================
